---------------------------- MODULE Spec2Model ----------------------------
(***************************************************************************)
(* Monthly laundry settlement (scripts/generate_invoices.py): raw records  *)
(* are aggregated per business and location, rendered into one statement   *)
(* per business and one filing sheet, and mailed.                          *)
(*                                                                         *)
(* Python dicts keep insertion order, and the script iterates them, so a    *)
(* dict is a sequence of [key, value] entries in insertion order.  A        *)
(* nullable count is <<>> (None) or <<n>>.  Korean strings are romanised.   *)
(* Rendered cells carry the number that the script formats into them.      *)
(***************************************************************************)
EXTENDS Integers, Sequences, FiniteSets, TLC

VARIABLES
    pc,             \* where main() is
    today,          \* date.today()
    argv,           \* sys.argv[1:], as integers
    year, month,    \* the target period
    rows,           \* what get_monthly_data returned
    business_data,  \* the aggregate mapping
    attachments,    \* the (filename, buffer) list
    EMAIL_PASSWORD, \* whether the credential is set
    notifier_calls, \* the arguments of each call of send_email
    smtp_log,       \* the outcome of each transport attempt
    send_result,    \* what send_email returned
    local_files     \* the files written under SAVE_LOCAL

vars == <<pc, today, argv, year, month, rows, business_data, attachments,
          EMAIL_PASSWORD, notifier_calls, smtp_log, send_result, local_files>>

\* -------------------------------------------------------------- bounds
\* Longest record sequence a fetch returns.
MaxRows == 2
\* Largest item count of one record.
MaxQty == 2
\* Largest amount of a free-form extra line.
MaxExtraAmount == 2

\* ------------------------------------------------------ python values
None == <<>>
Some(n) == <<n>>
\* `x or 0` on a nullable count.
OrZero(x) == IF x = None THEN 0 ELSE x[1]

NoPeriod == 0

\* ------------------------------------------------------------- dicts
DictHas(d, k) == \E i \in 1..Len(d) : d[i].key = k
DictIndex(d, k) == CHOOSE i \in 1..Len(d) : d[i].key = k
DictGet(d, k) == d[DictIndex(d, k)].value
\* d[k] = v: a new key goes last, an old key keeps its place.
DictSet(d, k, v) ==
    IF DictHas(d, k)
    THEN [d EXCEPT ![DictIndex(d, k)] = [key |-> k, value |-> v]]
    ELSE Append(d, [key |-> k, value |-> v])

\* ------------------------------------------------------ configuration
COPS == <<"767-87-02214", "Cops Co., Ltd.", "Nam Taek-ho">>
ORLY == <<"419-11-02853", "Orly", "Kim Ji-hye">>
STAYMOMENT == <<"461-86-03598", "Stay Moment Co., Ltd.", "Yu Gyeong-min">>

BUSINESS_MAP ==
    << [key |-> "Seodaemun-gu Yeonhui-ro 4-gil 25-7", value |-> COPS],
       [key |-> "Dongdaemun-gu Gosanja-ro 508-3", value |-> COPS],
       [key |-> "Dongdaemun-gu Wangsan-ro 200, 1004", value |-> COPS],
       [key |-> "Dongdaemun-gu Janghan-ro 26na-gil 21", value |-> COPS],
       [key |-> "Gwangjin-gu Neungdong-ro 165-1", value |-> COPS],
       [key |-> "Songpa-gu Garak-ro 28-gil 3-10", value |-> COPS],
       [key |-> "Dongdaemun-gu Hoegi-ro 189", value |-> ORLY],
       [key |-> "Gwanak-gu Sillim-dong 1-gil 19-5", value |-> STAYMOMENT] >>

PRICES ==
    << [key |-> "blanket", value |-> 6500],
       [key |-> "mat", value |-> 4500],
       [key |-> "pillow_cover", value |-> 1500],
       [key |-> "towel", value |-> 1000],
       [key |-> "body_towel", value |-> 700] >>

ITEM_NAMES ==
    << [key |-> "blanket", value |-> "ibul"],
       [key |-> "mat", value |-> "yo"],
       [key |-> "pillow_cover", value |-> "begae-keobeo"],
       [key |-> "towel", value |-> "sugeon"],
       [key |-> "body_towel", value |-> "badi-tawol"] >>

ItemKeys == {PRICES[i].key : i \in 1..Len(PRICES)}

\* ------------------------------------------------------------- inputs
UnknownLocation == "Mapo-gu Unknown-ro 1"
FirstLocation == "Seodaemun-gu Yeonhui-ro 4-gil 25-7"
\* A second location of the first one's business, a location of another
\* business, and one outside the directory.
OtherLocations ==
    { "Dongdaemun-gu Gosanja-ro 508-3", "Dongdaemun-gu Hoegi-ro 189", UnknownLocation }

Counts == {None} \cup {Some(n) : n \in 0..MaxQty}

Row(d, loc, k, v) ==
    [record_date |-> d, location |-> loc,
     blanket |-> IF k = "blanket" THEN v ELSE None,
     mat |-> IF k = "mat" THEN v ELSE None,
     pillow_cover |-> IF k = "pillow_cover" THEN v ELSE None,
     towel |-> IF k = "towel" THEN v ELSE None,
     body_towel |-> IF k = "body_towel" THEN v ELSE None]

\* A record of the month counts one item kind (or none) and leaves the others
\* null: any kind at the first location, towels at the others.
Records ==
    {Row(1, FirstLocation, k, v) : k \in ItemKeys, v \in Counts}
    \cup {Row(1, loc, "towel", v) : loc \in OtherLocations, v \in Counts}

RECURSIVE SeqsUpTo(_, _)
SeqsUpTo(S, n) ==
    IF n = 0 THEN {<<>>}
    ELSE LET shorter == SeqsUpTo(S, n - 1)
         IN  shorter \cup {Append(s, x) : s \in {t \in shorter : Len(t) = n - 1}, x \in S}

RowSeqs == SeqsUpTo(Records, MaxRows)

\* --------------------------------------------------------- aggregator
ZeroBucket == [blanket |-> 0, mat |-> 0, pillow_cover |-> 0, towel |-> 0, body_towel |-> 0]

\* AddRow with = for +=: a later record overwrites the bucket.
AddRow_Overwrite(loc_data, row) ==
    [blanket |-> OrZero(row.blanket),
     mat |-> OrZero(row.mat),
     pillow_cover |-> OrZero(row.pillow_cover),
     towel |-> OrZero(row.towel),
     body_towel |-> OrZero(row.body_towel)]

\* AddRow with the last two lines' right-hand sides exchanged.
AddRow_Swapped(loc_data, row) ==
    [blanket |-> loc_data.blanket + OrZero(row.blanket),
     mat |-> loc_data.mat + OrZero(row.mat),
     pillow_cover |-> loc_data.pillow_cover + OrZero(row.pillow_cover),
     towel |-> loc_data.towel + OrZero(row.body_towel),
     body_towel |-> loc_data.body_towel + OrZero(row.towel)]

\* loc_data[...] += ... or 0, for the five item kinds.
AddRow(loc_data, row) ==
    [blanket |-> loc_data.blanket + OrZero(row.blanket),
     mat |-> loc_data.mat + OrZero(row.mat),
     pillow_cover |-> loc_data.pillow_cover + OrZero(row.pillow_cover),
     towel |-> loc_data.towel + OrZero(row.towel),
     body_towel |-> loc_data.body_towel + OrZero(row.body_towel)]

\* One pass of the loop body of aggregate_by_business.
AggregateRow(bd, row) ==
    IF ~DictHas(BUSINESS_MAP, row.location)
    THEN bd
    ELSE LET biz == DictGet(BUSINESS_MAP, row.location)
             reg_no == biz[1]
             bd1 == IF ~DictHas(bd, reg_no)
                    THEN DictSet(bd, reg_no,
                                 [name |-> biz[2], owner |-> biz[3],
                                  locations |-> <<>>, extra_items |-> <<>>])
                    ELSE bd
             data == DictGet(bd1, reg_no)
             locs1 == IF ~DictHas(data.locations, row.location)
                      THEN DictSet(data.locations, row.location, ZeroBucket)
                      ELSE data.locations
             locs2 == DictSet(locs1, row.location,
                              AddRow(DictGet(locs1, row.location), row))
         IN  DictSet(bd1, reg_no, [data EXCEPT !.locations = locs2])

\* The loop with break for continue: it stops at an unknown location.
RECURSIVE AggregateFrom_Break(_, _, _)
AggregateFrom_Break(bd, rs, i) ==
    IF i > Len(rs) \/ ~DictHas(BUSINESS_MAP, rs[i].location) THEN bd
    ELSE AggregateFrom_Break(AggregateRow(bd, rs[i]), rs, i + 1)

RECURSIVE AggregateFrom(_, _, _)
AggregateFrom(bd, rs, i) ==
    IF i > Len(rs) THEN bd
    ELSE AggregateFrom(AggregateRow(bd, rs[i]), rs, i + 1)

aggregate_by_business(rs) == AggregateFrom(<<>>, rs, 1)


\* ------------------------------------------------- float arithmetic
\* int(total / 1.1) as CPython computes it.  total is converted to a binary64
\* (exactly, below 2^53), divided by the binary64 nearest to 1.1 with the
\* quotient rounded to nearest, ties to even, and int() drops the fraction.
\* The literal 1.1 is the binary64 0x1.199999999999ap+0, which is
\* 4953959590107546 / 2^52.  Numbers beyond 31 bits are pairs <<hi, lo>> of
\* value hi * LIMB + lo.
LIMB == 2^27
\* 4953959590107546 = 36909875 * 2^27 + 26843546
ONE_POINT_ONE == <<36909875, 26843546>>
\* The quotient's integer part lies in the 52 bits above the binary point of
\* total * 2^52 / 4953959590107546.
FRACTION_SHIFT == 52
\* Significand bits of a binary64.
MANT_DIG == 53

BigDouble(a) == <<2 * a[1] + (2 * a[2]) \div LIMB, (2 * a[2]) % LIMB>>
BigGeq(a, b) == a[1] > b[1] \/ (a[1] = b[1] /\ a[2] >= b[2])
BigSub(a, b) ==
    IF a[2] >= b[2] THEN <<a[1] - b[1], a[2] - b[2]>>
    ELSE <<a[1] - b[1] - 1, a[2] + LIMB - b[2]>>

\* One step of binary long division by ONE_POINT_ONE: the next quotient bit
\* and the remainder after it.
DivStep(r) ==
    LET r2 == BigDouble(r)
    IN  IF BigGeq(r2, ONE_POINT_ONE)
        THEN [bit |-> 1, rem |-> BigSub(r2, ONE_POINT_ONE)]
        ELSE [bit |-> 0, rem |-> r2]

RECURSIVE BitLength(_)
BitLength(n) == IF n = 0 THEN 0 ELSE 1 + BitLength(n \div 2)

\* The quotient's next bit above the binary point, while there is one: i bits
\* are done and q is their value.
IntegerStep(s) ==
    IF s.i >= FRACTION_SHIFT THEN s
    ELSE LET st == DivStep(s.rem)
         IN  [i |-> s.i + 1, q |-> 2 * s.q + st.bit, rem |-> st.rem]

IntegerStep8(s) ==
    IntegerStep(IntegerStep(IntegerStep(IntegerStep(
        IntegerStep(IntegerStep(IntegerStep(IntegerStep(s))))))))

RECURSIVE DivInteger(_)
DivInteger(s) == IF s.i >= FRACTION_SHIFT THEN s ELSE DivInteger(IntegerStep8(s))

\* The quotient's next bit below the binary point, while the significand has
\* room: sig bits are significant so far, ones says that every fraction bit
\* kept is 1, lsb is the last bit kept.
FractionStep(s) ==
    IF s.sig >= MANT_DIG THEN s
    ELSE LET st == DivStep(s.rem)
         IN  [sig |-> IF s.sig > 0 \/ st.bit = 1 THEN s.sig + 1 ELSE 0,
              ones |-> s.ones /\ st.bit = 1, lsb |-> st.bit, rem |-> st.rem]

FractionStep8(s) ==
    FractionStep(FractionStep(FractionStep(FractionStep(
        FractionStep(FractionStep(FractionStep(FractionStep(s))))))))

RECURSIVE DivFraction(_)
DivFraction(s) == IF s.sig >= MANT_DIG THEN s ELSE DivFraction(FractionStep8(s))

\* int(total / 1.1), for 0 <= total < 2^27.
IntOfQuotient(total) ==
    IF total = 0 THEN 0
    ELSE LET int == DivInteger([i |-> 0, q |-> 0, rem |-> <<0, total>>])
             frac == DivFraction([sig |-> BitLength(int.q), ones |-> TRUE,
                                  lsb |-> int.q % 2, rem |-> int.rem])
             guard == DivStep(frac.rem)
             roundUp == guard.bit = 1 /\ (guard.rem # <<0, 0>> \/ frac.lsb = 1)
         IN  IF roundUp /\ frac.ones THEN int.q + 1 ELSE int.q

\* ------------------------------------------------------------ calendar
isleap(y) == y % 4 = 0 /\ (y % 100 # 0 \/ y % 400 = 0)

\* calendar.monthrange(y, m)[1]
DaysInMonth(y, m) ==
    IF m = 2 THEN (IF isleap(y) THEN 29 ELSE 28)
    ELSE IF m \in {4, 6, 9, 11} THEN 30 ELSE 31

\* ----------------------------------------------------------- statement
SUPPLIER == [name |-> "Carry", reg_no |-> "521-23-01693", owner |-> "Ham Jeong-hun"]

\* The item loop of one location: a line for each kind with qty > 0, and the
\* total of the lines.
RECURSIVE PdfItems(_, _, _)
PdfItems(loc_data, i, acc) ==
    IF i > Len(ITEM_NAMES) THEN acc
    ELSE LET item_key == ITEM_NAMES[i].key
             qty == loc_data[item_key]
             price == DictGet(PRICES, item_key)
             amount == qty * price
         IN  IF qty > 0
             THEN PdfItems(loc_data, i + 1,
                           [item_rows |-> Append(acc.item_rows,
                                                 [name |-> ITEM_NAMES[i].value, qty |-> qty,
                                                  price |-> price, amount |-> amount]),
                            loc_total |-> acc.loc_total + amount])
             ELSE PdfItems(loc_data, i + 1, acc)

\* The location loop: a section with its lines and subtotal per location, and
\* the running grand total.
RECURSIVE PdfLocations(_, _, _)
PdfLocations(locations, idx, acc) ==
    IF idx > Len(locations) THEN acc
    ELSE LET items == PdfItems(locations[idx].value, 1, [item_rows |-> <<>>, loc_total |-> 0])
         IN  PdfLocations(locations, idx + 1,
                          [sections |-> Append(acc.sections,
                                               [idx |-> idx, location |-> locations[idx].key,
                                                item_rows |-> items.item_rows,
                                                subtotal |-> items.loc_total]),
                           grand_total |-> acc.grand_total + items.loc_total])

\* The extra-items loop with the amount recomputed from qty and price.
RECURSIVE PdfExtras_Recomputed(_, _, _)
PdfExtras_Recomputed(extra_items, i, acc) ==
    IF i > Len(extra_items) THEN acc
    ELSE PdfExtras_Recomputed(extra_items, i + 1,
                   [extra_rows |-> Append(acc.extra_rows, extra_items[i]),
                    grand_total |-> acc.grand_total + extra_items[i].qty * extra_items[i].price])

\* The extra-items loop: each amount is added as given.
RECURSIVE PdfExtras(_, _, _)
PdfExtras(extra_items, i, acc) ==
    IF i > Len(extra_items) THEN acc
    ELSE PdfExtras(extra_items, i + 1,
                   [extra_rows |-> Append(acc.extra_rows, extra_items[i]),
                    grand_total |-> acc.grand_total + extra_items[i].amount])

generate_pdf(reg_no, data, y, m) ==
    LET locs == PdfLocations(data.locations, 1, [sections |-> <<>>, grand_total |-> 0])
        extras == PdfExtras(data.extra_items, 1,
                            [extra_rows |-> <<>>, grand_total |-> locs.grand_total])
        grand_total == extras.grand_total
        supply_amount == IntOfQuotient(grand_total)
        tax_amount == grand_total - supply_amount
    IN  [kind |-> "pdf", period |-> <<y, m>>,
         supplier |-> SUPPLIER,
         customer |-> [name |-> data.name, reg_no |-> reg_no, owner |-> data.owner],
         sections |-> locs.sections,
         extra_rows |-> extras.extra_rows,
         supply_amount |-> supply_amount, tax_amount |-> tax_amount,
         grand_total |-> grand_total]

\* -------------------------------------------------------- filing sheet
\* reg_no.replace('-', '') on the directory's registration numbers.
StripDashes(reg_no) ==
    CASE reg_no = "767-87-02214" -> "7678702214"
      [] reg_no = "419-11-02853" -> "4191102853"
      [] reg_no = "461-86-03598" -> "4618603598"

RECURSIVE ExcelItems(_, _)
\* for item_key in PRICES: total += (loc_data.get(item_key, 0) or 0) * price
ExcelItems(loc_data, i) ==
    IF i > Len(PRICES) THEN 0
    ELSE loc_data[PRICES[i].key] * PRICES[i].value + ExcelItems(loc_data, i + 1)

RECURSIVE ExcelLocations(_, _)
ExcelLocations(locations, i) ==
    IF i > Len(locations) THEN 0
    ELSE ExcelItems(locations[i].value, 1) + ExcelLocations(locations, i + 1)

RECURSIVE ExcelExtras(_, _)
ExcelExtras(extra_items, i) ==
    IF i > Len(extra_items) THEN 0
    ELSE extra_items[i].amount + ExcelExtras(extra_items, i + 1)

\* The total of one business without its extra items.
ExcelTotal_NoExtras(data) == ExcelLocations(data.locations, 1)

\* The total of one business.
ExcelTotal(data) == ExcelLocations(data.locations, 1) + ExcelExtras(data.extra_items, 1)

ExcelRow(reg_no, data, write_date) ==
    LET total == ExcelTotal(data)
        supply_amount == IntOfQuotient(total)
        tax_amount == total - supply_amount
    IN  [write_date |-> write_date, reg_no |-> StripDashes(reg_no),
         name |-> data.name, owner |-> data.owner,
         supply_amount |-> supply_amount, tax_amount |-> tax_amount,
         total |-> total, item |-> "setak service"]

generate_excel(bd, y, m) ==
    LET last_day == DaysInMonth(y, m)
        \* f"{year}{month:02d}{last_day:02d}", read as a number
        write_date == y * 10000 + m * 100 + last_day
    IN  [kind |-> "xlsx", period |-> <<y, m>>,
         data_rows |-> [i \in 1..Len(bd) |-> ExcelRow(bd[i].key, bd[i].value, write_date)]]

\* ------------------------------------------------------------- main
\* DefaultPeriod with the year's end forgotten: January gives month 0.
DefaultPeriod_NoWrap(t) ==
    IF t.day = DaysInMonth(t.year, t.month)
    THEN <<t.year, t.month>>
    ELSE <<t.year, t.month - 1>>

\* The default period: the month of today when today is its last day, else
\* the month before.
DefaultPeriod(t) ==
    IF t.day = DaysInMonth(t.year, t.month)
    THEN <<t.year, t.month>>
    ELSE IF t.month = 1 THEN <<t.year - 1, 12>> ELSE <<t.year, t.month - 1>>

\* len(sys.argv) >= 3 is two positional arguments or more.
TargetPeriod(t, args) ==
    IF Len(args) >= 2 THEN <<args[1], args[2]>> ELSE DefaultPeriod(t)

ResolvePeriod ==
    /\ pc = "start"
    /\ year' = TargetPeriod(today, argv)[1]
    /\ month' = TargetPeriod(today, argv)[2]
    /\ pc' = "fetch"
    /\ UNCHANGED <<today, argv, rows, business_data, attachments, EMAIL_PASSWORD,
                   notifier_calls, smtp_log, send_result, local_files>>

\* Where main goes after the fetch: on.
AfterFetch_NoCheck(rs) == "aggregate"

\* Where main goes after the fetch: it returns when there are no rows.
AfterFetch(rs) == IF rs = <<>> THEN "done" ELSE "aggregate"

\* The i-th record of a fetch is dated the i-th day of the month.
Dated(rs) == [i \in 1..Len(rs) |-> [rs[i] EXCEPT !.record_date = i]]

\* The fetches of a whole run: records that count MaxQty of their kind.
RunRowSeqs ==
    SeqsUpTo({r \in Records : \E k \in ItemKeys : r[k] = Some(MaxQty)}, MaxRows)

FetchData ==
    /\ pc = "fetch"
    /\ \E rs \in RunRowSeqs :
           /\ rows' = Dated(rs)
           /\ pc' = AfterFetch(rs)
    /\ UNCHANGED <<today, argv, year, month, business_data, attachments,
                   EMAIL_PASSWORD, notifier_calls, smtp_log, send_result, local_files>>

\* psycopg2 raises: the run dies with the exception.
FetchFails ==
    /\ pc = "fetch"
    /\ pc' = "crashed"
    /\ UNCHANGED <<today, argv, year, month, rows, business_data, attachments,
                   EMAIL_PASSWORD, notifier_calls, smtp_log, send_result, local_files>>

Aggregate ==
    /\ pc = "aggregate"
    /\ business_data' = aggregate_by_business(rows)
    /\ pc' = "pdf"
    /\ UNCHANGED <<today, argv, year, month, rows, attachments, EMAIL_PASSWORD,
                   notifier_calls, smtp_log, send_result, local_files>>

\* One pass of the loop over business_data.items(): the next statement.
GeneratePdf ==
    /\ pc = "pdf"
    /\ Len(attachments) < Len(business_data)
    /\ LET e == business_data[Len(attachments) + 1]
       IN  attachments' =
               Append(attachments,
                      [filename |-> [period |-> <<year, month>>, doc |-> "statement",
                                     name |-> e.value.name],
                       buffer |-> generate_pdf(e.key, e.value, year, month)])
    /\ UNCHANGED <<pc, today, argv, year, month, rows, business_data, EMAIL_PASSWORD,
                   notifier_calls, smtp_log, send_result, local_files>>

\* The filing sheet, left out when there is no business.
GenerateExcel_SkipWhenEmpty ==
    /\ pc = "pdf"
    /\ Len(attachments) = Len(business_data)
    /\ attachments' =
           IF business_data = <<>> THEN attachments
           ELSE Append(attachments,
                       [filename |-> [period |-> <<year, month>>, doc |-> "hometax"],
                        buffer |-> generate_excel(business_data, year, month)])
    /\ pc' = "email"
    /\ UNCHANGED <<today, argv, year, month, rows, business_data, EMAIL_PASSWORD,
                   notifier_calls, smtp_log, send_result, local_files>>

\* After the loop: the filing sheet.
GenerateExcel ==
    /\ pc = "pdf"
    /\ Len(attachments) = Len(business_data)
    /\ attachments' =
           Append(attachments,
                  [filename |-> [period |-> <<year, month>>, doc |-> "hometax"],
                   buffer |-> generate_excel(business_data, year, month)])
    /\ pc' = "email"
    /\ UNCHANGED <<today, argv, year, month, rows, business_data, EMAIL_PASSWORD,
                   notifier_calls, smtp_log, send_result, local_files>>

RECURSIVE TotalAmount(_, _)
\* total_amount of the message body.
TotalAmount(bd, i) ==
    IF i > Len(bd) THEN 0
    ELSE ExcelLocations(bd[i].value.locations, 1) + ExcelExtras(bd[i].value.extra_items, 1)
         + TotalAmount(bd, i + 1)

\* send_email that tries the transport again after a failure.
send_email_Retry ==
    \/ /\ ~EMAIL_PASSWORD
       /\ send_result' = "False"
       /\ UNCHANGED smtp_log
    \/ /\ EMAIL_PASSWORD
       /\ \/ smtp_log' = Append(smtp_log, "sent") /\ send_result' = "True"
          \/ smtp_log' = Append(smtp_log, "sent, quit failed") /\ send_result' = "False"
          \/ smtp_log' = smtp_log \o <<"failed", "sent">> /\ send_result' = "True"
          \/ smtp_log' = smtp_log \o <<"failed", "failed">> /\ send_result' = "False"

\* send_email: no credential, no attempt; else one attempt inside try, which
\* sends and quits, or sends and fails to quit, or fails before it has sent.
send_email ==
    \/ /\ ~EMAIL_PASSWORD
       /\ send_result' = "False"
       /\ UNCHANGED smtp_log
    \/ /\ EMAIL_PASSWORD
       /\ \/ smtp_log' = Append(smtp_log, "sent") /\ send_result' = "True"
          \/ smtp_log' = Append(smtp_log, "sent, quit failed") /\ send_result' = "False"
          \/ smtp_log' = Append(smtp_log, "failed") /\ send_result' = "False"

SendEmail ==
    /\ pc = "email"
    /\ notifier_calls' =
           Append(notifier_calls,
                  [period |-> <<year, month>>,
                   total_amount |-> TotalAmount(business_data, 1),
                   business_count |-> Len(business_data),
                   attachments |-> attachments])
    /\ send_email
    /\ pc' = "save"
    /\ UNCHANGED <<today, argv, year, month, rows, business_data, attachments,
                   EMAIL_PASSWORD, local_files>>

\* os.environ.get('SAVE_LOCAL') is set: every attachment is written.
SaveLocal ==
    /\ pc = "save"
    /\ local_files' = [i \in 1..Len(attachments) |-> attachments[i].filename]
    /\ pc' = "done"
    /\ UNCHANGED <<today, argv, year, month, rows, business_data, attachments,
                   EMAIL_PASSWORD, notifier_calls, smtp_log, send_result>>

\* SAVE_LOCAL is not set.
SkipSaveLocal ==
    /\ pc = "save"
    /\ pc' = "done"
    /\ UNCHANGED <<today, argv, year, month, rows, business_data, attachments,
                   EMAIL_PASSWORD, notifier_calls, smtp_log, send_result, local_files>>

\* ------------------------------------------------------ the whole run
\* A last day of a month, a day of January, a day of March.
RunDates ==
    { [year |-> 2024, month |-> 2, day |-> 29], [year |-> 2025, month |-> 1, day |-> 15],
      [year |-> 2025, month |-> 3, day |-> 1] }

Init ==
    /\ pc = "start"
    /\ today \in RunDates
    /\ argv \in {<<>>, <<2024, 11>>}
    /\ year = NoPeriod
    /\ month = NoPeriod
    /\ rows = <<>>
    /\ business_data = <<>>
    /\ attachments = <<>>
    /\ EMAIL_PASSWORD \in BOOLEAN
    /\ notifier_calls = <<>>
    /\ smtp_log = <<>>
    /\ send_result = "none"
    /\ local_files = <<>>

Next ==
    \/ ResolvePeriod
    \/ FetchData
    \/ FetchFails
    \/ Aggregate
    \/ GeneratePdf
    \/ GenerateExcel
    \/ SendEmail
    \/ SaveLocal
    \/ SkipSaveLocal

Spec == Init /\ [][Next]_vars

\* ------------------------------------------- aggregation on its own
InitAgg ==
    /\ pc = "aggregate"
    /\ today \in {[year |-> 2024, month |-> 3, day |-> 1]}
    /\ argv = <<>>
    /\ year = 2024
    /\ month = 2
    /\ rows \in {Dated(rs) : rs \in RowSeqs}
    /\ business_data = <<>>
    /\ attachments = <<>>
    /\ EMAIL_PASSWORD = FALSE
    /\ notifier_calls = <<>>
    /\ smtp_log = <<>>
    /\ send_result = "none"
    /\ local_files = <<>>

NextAgg == Aggregate

SpecAgg == InitAgg /\ [][NextAgg]_vars

\* -------------------------------------------- the builders on their own
ExtraItem(a) == [name |-> "pickup", qty |-> 2, price |-> 1, amount |-> a]
\* No extra line, one line of any amount, or that line and a second one.
ExtraLists ==
    {<<>>} \cup {<<ExtraItem(a)>> : a \in 0..MaxExtraAmount}
           \cup {<<ExtraItem(a), ExtraItem(MaxExtraAmount)>> : a \in 0..MaxExtraAmount}

\* An aggregate of the aggregator whose businesses carry the extra items ex.
WithExtras(bd, ex) ==
    [i \in 1..Len(bd) |-> [bd[i] EXCEPT !.value.extra_items = ex]]

InitDoc ==
    /\ pc = "pdf"
    /\ today \in {[year |-> 2024, month |-> 3, day |-> 1]}
    /\ argv = <<>>
    /\ year = 2024
    /\ month = 2
    /\ rows = <<>>
    /\ business_data \in {WithExtras(aggregate_by_business(rs), ex) :
                              rs \in RowSeqs, ex \in ExtraLists}
    /\ attachments = <<>>
    /\ EMAIL_PASSWORD = FALSE
    /\ notifier_calls = <<>>
    /\ smtp_log = <<>>
    /\ send_result = "none"
    /\ local_files = <<>>

NextDoc == GeneratePdf \/ GenerateExcel

SpecDoc == InitDoc /\ [][NextDoc]_vars

\* ------------------------------------- period resolution on its own
Years == {1900, 2000, 2023, 2024}
Dates ==
    {[year |-> y, month |-> m, day |-> d] :
         y \in Years, m \in 1..12, d \in 1..31}

InitPeriod ==
    /\ pc = "start"
    /\ today \in {t \in Dates : t.day <= DaysInMonth(t.year, t.month)}
    /\ argv \in {<<>>, <<2022>>, <<2022, 7>>, <<2021, 12>>, <<2022, 7, 15>>}
    /\ year = NoPeriod
    /\ month = NoPeriod
    /\ rows = <<>>
    /\ business_data = <<>>
    /\ attachments = <<>>
    /\ EMAIL_PASSWORD = FALSE
    /\ notifier_calls = <<>>
    /\ smtp_log = <<>>
    /\ send_result = "none"
    /\ local_files = <<>>

NextPeriod == ResolvePeriod

SpecPeriod == InitPeriod /\ [][NextPeriod]_vars

\* ------------------------------------------------- aggregation claims
Range(f) == {f[i] : i \in DOMAIN f}

RECURSIVE SumOf(_, _, _, _)
\* The sum of item kind k over the records of location loc, null as 0.
SumOf(rs, loc, k, i) ==
    IF i > Len(rs) THEN 0
    ELSE (IF rs[i].location = loc /\ rs[i][k] # None THEN rs[i][k][1] ELSE 0)
         + SumOf(rs, loc, k, i + 1)

RemoveAt(s, i) == [j \in 1..(Len(s) - 1) |-> IF j < i THEN s[j] ELSE s[j + 1]]

\* An aggregate mapping without its iteration orders.
Unordered(bd) ==
    { [reg_no |-> e.key, name |-> e.value.name, owner |-> e.value.owner,
       locations |-> Range(e.value.locations),
       extra_items |-> e.value.extra_items] : e \in Range(bd) }

\* C1: after aggregation, every directory location with a record has a bucket
\* under its business, and the bucket holds, for each of the five item kinds,
\* the sum of that kind over all records of the location, null counted as 0.
C1_Summation ==
    pc = "pdf" =>
        \A loc \in {rows[i].location : i \in 1..Len(rows)} :
            DictHas(BUSINESS_MAP, loc) =>
                LET reg_no == DictGet(BUSINESS_MAP, loc)[1]
                IN  /\ DictHas(business_data, reg_no)
                    /\ DictHas(DictGet(business_data, reg_no).locations, loc)
                    /\ \A k \in ItemKeys :
                           DictGet(DictGet(business_data, reg_no).locations, loc)[k]
                               = SumOf(rows, loc, k, 1)

\* Two records of one directory location on different dates count the same
\* kind, a positive number each, and the bucket holds their sum.
C1_Witness ==
    /\ pc = "pdf"
    /\ \E i, j \in 1..Len(rows), k \in ItemKeys :
           /\ i < j
           /\ rows[i].location = rows[j].location
           /\ rows[i].record_date # rows[j].record_date
           /\ DictHas(BUSINESS_MAP, rows[i].location)
           /\ rows[i][k] # None /\ rows[j][k] # None
           /\ OrZero(rows[i][k]) > 0 /\ OrZero(rows[j][k]) > 0
           /\ DictGet(DictGet(business_data, DictGet(BUSINESS_MAP, rows[i].location)[1]).locations,
                      rows[i].location)[k] = OrZero(rows[i][k]) + OrZero(rows[j][k])

\* C5: a record whose location is not in the directory adds no business and
\* no bucket, and the aggregates are those of the input without that record.
C5_UnmappedSkipped ==
    pc = "pdf" =>
        \A i \in 1..Len(rows) :
            ~DictHas(BUSINESS_MAP, rows[i].location) =>
                /\ business_data = aggregate_by_business(RemoveAt(rows, i))
                /\ \A e \in Range(business_data) :
                       ~DictHas(e.value.locations, rows[i].location)
                /\ Len(business_data) <= Len(rows) - 1

\* An unknown location's record with a positive count comes first, a directory
\* location's record follows it and is aggregated.
C5_Witness ==
    /\ pc = "pdf"
    /\ Len(rows) >= 2
    /\ ~DictHas(BUSINESS_MAP, rows[1].location)
    /\ OrZero(rows[1].towel) > 0
    /\ DictHas(BUSINESS_MAP, rows[2].location)
    /\ Len(business_data) = 1

PermuteRows(rs, p) == [i \in 1..Len(rs) |-> rs[p[i]]]

\* C9: every permutation of the input yields the same businesses, the same
\* locations under each and the same quantities; only iteration order differs.
C9_OrderIndependent ==
    pc = "pdf" =>
        \A p \in Permutations(1..Len(rows)) :
            Unordered(aggregate_by_business(PermuteRows(rows, p))) = Unordered(business_data)

\* A permutation of the input changes the iteration order of the result.
C9_Witness ==
    /\ pc = "pdf"
    /\ \E p \in Permutations(1..Len(rows)) :
           /\ aggregate_by_business(PermuteRows(rows, p)) # business_data
           /\ Unordered(aggregate_by_business(PermuteRows(rows, p))) = Unordered(business_data)

\* ------------------------------------------------------ builder claims
RECURSIVE SumSeq(_, _)
SumSeq(ns, i) == IF i > Len(ns) THEN 0 ELSE ns[i] + SumSeq(ns, i + 1)

RECURSIVE SumSet(_, _)
\* The sum of qty * price over the item kinds of S that the bucket counts.
SumSet(loc_data, S) ==
    IF S = {} THEN 0
    ELSE LET k == CHOOSE x \in S : TRUE
         IN  (IF loc_data[k] > 0 THEN loc_data[k] * DictGet(PRICES, k) ELSE 0)
             + SumSet(loc_data, S \ {k})

Documents == {attachments[i].buffer : i \in 1..Len(attachments)}
FilingRows ==
    UNION {Range(d.data_rows) : d \in {x \in Documents : x.kind = "xlsx"}}

\* C2: in every statement and every filing row the supply amount is the exact
\* floor of total * 10 / 11 and the tax amount is the total less the supply
\* amount.
C2_ExactFloorSplit ==
    /\ \A d \in {x \in Documents : x.kind = "pdf"} :
           /\ d.supply_amount = (d.grand_total * 10) \div 11
           /\ d.tax_amount = d.grand_total - d.supply_amount
    /\ \A r \in FilingRows :
           /\ r.supply_amount = (r.total * 10) \div 11
           /\ r.tax_amount = r.total - r.supply_amount

\* C3: once the filing sheet is built, the total, supply amount and tax amount
\* of each business's filing row equal those of the business's statement.
C3_FilingMatchesStatement ==
    pc = "email" =>
        LET sheet == attachments[Len(attachments)].buffer
        IN  /\ Len(sheet.data_rows) = Len(business_data)
            /\ \A i \in 1..Len(business_data) :
                   /\ sheet.data_rows[i].total = attachments[i].buffer.grand_total
                   /\ sheet.data_rows[i].supply_amount = attachments[i].buffer.supply_amount
                   /\ sheet.data_rows[i].tax_amount = attachments[i].buffer.tax_amount

\* Both documents are built for a business with a bucket that has a kind at 0
\* and a kind above 0, and with an extra line of a positive amount.
C3_Witness ==
    /\ pc = "email"
    /\ \E i \in 1..Len(business_data) :
           /\ \E l \in Range(business_data[i].value.locations), k1, k2 \in ItemKeys :
                  l.value[k1] = 0 /\ l.value[k2] > 0
           /\ \E x \in Range(business_data[i].value.extra_items) : x.amount > 0
           /\ attachments[Len(attachments)].buffer.data_rows[i].total > 0

\* C4: in every statement the grand total is the sum of the location
\* subtotals plus the extra items' amounts as given, each subtotal is the sum
\* of qty * price over the location's kinds with qty > 0 and of its lines, and
\* supply amount plus tax amount is the grand total.
C4_TotalsReconcile ==
    \A i \in 1..Len(attachments) :
        attachments[i].buffer.kind = "pdf" =>
            LET d == attachments[i].buffer
                data == business_data[i].value
            IN  /\ d.grand_total
                       = SumSeq([j \in 1..Len(d.sections) |-> d.sections[j].subtotal], 1)
                         + SumSeq([j \in 1..Len(data.extra_items) |-> data.extra_items[j].amount], 1)
                /\ Len(d.sections) = Len(data.locations)
                /\ \A j \in 1..Len(d.sections) :
                       /\ d.sections[j].subtotal = SumSet(data.locations[j].value, ItemKeys)
                       /\ d.sections[j].subtotal
                              = SumSeq([n \in 1..Len(d.sections[j].item_rows) |->
                                            d.sections[j].item_rows[n].amount], 1)
                       /\ \A r \in Range(d.sections[j].item_rows) :
                              r.qty > 0 /\ r.amount = r.qty * r.price
                /\ d.supply_amount + d.tax_amount = d.grand_total

\* A statement with two locations of positive subtotals and two extra lines,
\* one of them with an amount that is not qty * price.
C4_Witness ==
    \E i \in 1..Len(attachments) :
        /\ attachments[i].buffer.kind = "pdf"
        /\ Len(attachments[i].buffer.sections) = 2
        /\ \A j \in 1..2 : attachments[i].buffer.sections[j].subtotal > 0
        /\ Len(attachments[i].buffer.extra_rows) = 2
        /\ \E x \in Range(attachments[i].buffer.extra_rows) :
               x.amount > 0 /\ x.amount # x.qty * x.price

\* ---------------------------------------------------------- run claims
\* C6: a fetch of zero records ends the run with no document, no call of the
\* notifier, no transport attempt and no local file; and the notifier is called
\* only after aggregation and with every document built.
C6_EmptyFetchEndsRun ==
    /\ (pc \notin {"start", "fetch", "crashed"} /\ rows = <<>>) =>
           /\ pc = "done"
           /\ business_data = <<>>
           /\ attachments = <<>>
           /\ notifier_calls = <<>>
           /\ smtp_log = <<>>
           /\ local_files = <<>>
    /\ (notifier_calls # <<>> \/ smtp_log # <<>>) =>
           /\ rows # <<>>
           /\ pc \in {"save", "done"}
           /\ business_data = aggregate_by_business(rows)
           /\ Len(attachments) = Len(business_data) + 1
           /\ \A i \in 1..Len(business_data) : attachments[i].buffer.kind = "pdf"
           /\ attachments[Len(attachments)].buffer.kind = "xlsx"

\* The period is resolved, the fetch returned no record and the run is over.
C6_Witness ==
    /\ pc = "done"
    /\ year # NoPeriod
    /\ rows = <<>>
    /\ send_result = "none"

\* C7: the transport is attempted at most once; without the credential
\* send_email returns False with no attempt; with it there is exactly one
\* attempt, True is returned only if it sent, and after a failure False is
\* returned, main goes on and nothing is tried again.
C7_OneTransportAttempt ==
    /\ Len(smtp_log) <= 1
    /\ Len(notifier_calls) <= 1
    /\ notifier_calls = <<>> => smtp_log = <<>> /\ send_result = "none"
    /\ (notifier_calls # <<>> /\ ~EMAIL_PASSWORD) =>
           send_result = "False" /\ smtp_log = <<>>
    /\ (notifier_calls # <<>> /\ EMAIL_PASSWORD) =>
           /\ Len(smtp_log) = 1
           /\ send_result \in {"True", "False"}
           /\ send_result = "True" => smtp_log[1] = "sent"
           /\ smtp_log[1] = "failed" => send_result = "False"
    /\ notifier_calls # <<>> => pc \in {"save", "done"}

\* The credential is set, the one attempt failed, False came back and the run
\* went on to its end.
C7_Witness ==
    /\ pc = "done"
    /\ EMAIL_PASSWORD
    /\ smtp_log = <<"failed">>
    /\ send_result = "False"

\* C10: the notifier gets one statement per business, in the order of the
\* aggregate mapping, and then the one filing sheet: as many attachments as the
\* business count of the message plus one, also when that count is 0.
C10_AttachmentList ==
    \A c \in Range(notifier_calls) :
        /\ rows # <<>>
        /\ c.business_count = Len(business_data)
        /\ Len(c.attachments) = c.business_count + 1
        /\ \A i \in 1..c.business_count :
               /\ c.attachments[i].buffer.kind = "pdf"
               /\ c.attachments[i].filename.doc = "statement"
               /\ c.attachments[i].buffer.customer.reg_no = business_data[i].key
        /\ c.attachments[Len(c.attachments)].buffer.kind = "xlsx"
        /\ c.attachments[Len(c.attachments)].filename.doc = "hometax"
        /\ Len(c.attachments[Len(c.attachments)].buffer.data_rows) = c.business_count

\* The notifier is called for two businesses with three attachments.
C10_Witness ==
    \E c \in Range(notifier_calls) :
        /\ c.business_count = 2
        /\ Len(c.attachments) = 3
        /\ c.attachments[1].buffer.customer.reg_no # c.attachments[2].buffer.customer.reg_no

\* ------------------------------------------------------- period claims
PriorMonth(t) == IF t.month = 1 THEN <<t.year - 1, 12>> ELSE <<t.year, t.month - 1>>

\* The day after t is the first of a month.
LastDayOfMonth(t) ==
    LET feb == IF (t.year % 4 = 0 /\ t.year % 100 # 0) \/ t.year % 400 = 0 THEN 29 ELSE 28
    IN  t.day = <<31, feb, 31, 30, 31, 30, 31, 31, 30, 31, 30, 31>>[t.month]

\* C8 as stated: with fewer than two positional arguments the period is the
\* month before today's, with two it is the arguments.
C8_PriorMonthDefault ==
    pc = "fetch" =>
        /\ Len(argv) < 2 => <<year, month>> = PriorMonth(today)
        /\ Len(argv) = 2 => <<year, month>> = <<argv[1], argv[2]>>

\* C8 amended: with fewer than two positional arguments the period is today's
\* month when today is the last day of its month and the month before
\* otherwise; with two it is the arguments.
C8_DefaultPeriod ==
    pc = "fetch" =>
        /\ Len(argv) < 2 =>
               <<year, month>> = IF LastDayOfMonth(today)
                                 THEN <<today.year, today.month>>
                                 ELSE PriorMonth(today)
        /\ Len(argv) = 2 => <<year, month>> = <<argv[1], argv[2]>>

\* A run on 29 February with one argument settles February itself.
C8_Witness ==
    /\ pc = "fetch"
    /\ Len(argv) = 1
    /\ today.month = 2 /\ today.day = 29
    /\ <<year, month>> = <<today.year, 2>>

=============================================================================
